---- MODULE Spec2Model ----
(***************************************************************************)
(* TaskPilot (src/main.py): the in-memory task store (TaskManager), the    *)
(* keyword fallback interpreter and the LLM interpreter (LLMProcessor),    *)
(* and the command orchestrator (TaskManager.process_command).             *)
(*                                                                         *)
(* Representation.                                                         *)
(*  - Text that the code inspects (commands, titles, messages, tag         *)
(*    strings) is a sequence of lexemes: each lexeme is a run of           *)
(*    characters ("add", " ", "Buy", ...).  The lexemes are chosen so that *)
(*    no keyword can straddle a lexeme boundary, hence a substring test    *)
(*    on the text is a test on its lexemes (Occurs).                       *)
(*  - Python None is the value None (0) for id and created_at; real ids    *)
(*    and timestamps are positive.                                         *)
(*  - A Task carries id, title, priority, status, tags, created_at; the    *)
(*    optional description and due_date are opaque to every operation      *)
(*    modelled here and are left out.                                      *)
(*  - A JSON object is a record whose DOMAIN is the set of its keys.       *)
(***************************************************************************)
EXTENDS Integers, Sequences, FiniteSets, TLC

VARIABLES
    tasks,      \* TaskManager.tasks: the store's list, in order
    next_id,    \* TaskManager.next_id
    clock,      \* datetime.datetime.now(), as a counter
    held,       \* history: every id some stored task has held so far
    last_added, \* history: the last id add_task assigned (None if none yet)
    last,       \* history: the last call, its inputs and what it returned
    pending     \* the process_command calls made over the event loop

vars == <<tasks, next_id, clock, held, last_added, last, pending>>

----------------------------------------------------------------------------
(* Bounds *)

MaxTasks == 2      \* add_task is offered while the store is shorter
MaxNextId == 3     \* operations are offered while next_id stays within
MaxClock == 2      \* the clock stops advancing here
MaxBatch == 2      \* longest tasks payload an interpreter result carries
MaxCmdLen == 3     \* longest command, in lexemes
MaxTextLen == 3    \* longest LLM response text, in lexemes
MaxPending == 2    \* process_command calls made over the event loop
MaxSnapshot == 2   \* longest task list handed to an interpreter on its own

----------------------------------------------------------------------------
(* Models: Priority, TaskStatus, Task *)

None == 0

Priority == {"low", "medium", "high", "urgent"}

TaskStatus == {"todo", "in_progress", "done"}

\* Task(**data): the field defaults and the created_at stamp of __init__.
\* data is a record of the fields given; now is the clock reading.
TaskInit(data, now) ==
    [id         |-> IF "id" \in DOMAIN data THEN data.id ELSE None,
     title      |-> data.title,
     priority   |-> IF "priority" \in DOMAIN data THEN data.priority ELSE "medium",
     status     |-> IF "status" \in DOMAIN data THEN data.status ELSE "todo",
     tags       |-> IF "tags" \in DOMAIN data THEN data.tags.v ELSE <<>>,
     created_at |-> IF "created_at" \in DOMAIN data THEN data.created_at ELSE now]

\* pydantic validation of the data given to Task(**data): title is required
\* and tags, when given, must be a list.  A tags value is [kind, v] with kind
\* "str" (v the text), "list" (v the list of tags) or "other".
TaskValid(data) ==
    /\ "title" \in DOMAIN data
    /\ "tags" \in DOMAIN data => data.tags.kind = "list"

----------------------------------------------------------------------------
(* Sequence helpers *)

Ids(seq) == {seq[i].id : i \in 1..Len(seq)}

\* index of the first task with the id, 0 if there is none
\* (the for/enumerate loops of update_task and delete_task)
FirstIndex(seq, task_id) ==
    IF \E i \in 1..Len(seq) : seq[i].id = task_id
    THEN CHOOSE i \in 1..Len(seq) :
            /\ seq[i].id = task_id
            /\ \A j \in 1..(i - 1) : seq[j].id # task_id
    ELSE 0

RemoveAt(seq, i) == SubSeq(seq, 1, i - 1) \o SubSeq(seq, i + 1, Len(seq))

----------------------------------------------------------------------------
(* Text helpers: str.lower, str.strip, the "in" substring test, re.sub *)

\* str.lower() on a lexeme
Lower(s) ==
    CASE s = "Add" -> "add"
      [] s = "ADD" -> "add"
      [] s = "Create" -> "create"
      [] s = "List" -> "list"
      [] s = "Milk" -> "milk"
      [] s = "LOW" -> "low"
      [] s = "MEDIUM" -> "medium"
      [] s = "HIGH" -> "high"
      [] s = "High" -> "high"
      [] s = "URGENT" -> "urgent"
      [] s = "Critical" -> "critical"
      [] s = "CRITICAL" -> "critical"
      [] s = "Normal" -> "normal"
      [] s = "TODO" -> "todo"
      [] s = "To Do" -> "to do"
      [] s = "IN_PROGRESS" -> "in_progress"
      [] s = "In Progress" -> "in progress"
      [] s = "In-Progress" -> "in-progress"
      [] s = "DONE" -> "done"
      [] s = "Done" -> "done"
      [] s = "Completed" -> "completed"
      [] s = "Finished" -> "finished"
      [] s = "None" -> "none"
      [] s = "ASAP" -> "asap"
      [] OTHER -> s

LowerText(text) == [i \in 1..Len(text) |-> Lower(text[i])]

IsSpace(s) == s = " "

RECURSIVE LStrip(_)
LStrip(text) ==
    IF text # <<>> /\ IsSpace(Head(text)) THEN LStrip(Tail(text)) ELSE text

RECURSIVE RStrip(_)
RStrip(text) ==
    IF text # <<>> /\ IsSpace(text[Len(text)])
    THEN RStrip(SubSeq(text, 1, Len(text) - 1))
    ELSE text

\* str.strip()
Strip(text) == RStrip(LStrip(text))

\* word occurs inside the lexeme ("add" occurs in "address")
Occurs(word, s) == s = word \/ (word = "add" /\ s = "address")

\* word in text
Contains(text, word) == \E i \in 1..Len(text) : Occurs(word, text[i])

\* re.sub(r'^(add|create)\s+', '', text, flags=re.IGNORECASE): the verb must
\* open the text and be followed by at least one whitespace character
ReSubVerb(text) ==
    IF /\ Len(text) >= 2
       /\ Lower(text[1]) \in {"add", "create"}
       /\ IsSpace(text[2])
    THEN LStrip(Tail(text))
    ELSE text

----------------------------------------------------------------------------
(* LLMProcessor.fallback_process *)

\* An element of a tasks payload: a JSON object (kind "dict"), a Task object
\* (kind "task") or any other value (kind "other").
TaskObjects(seq) == [i \in 1..Len(seq) |-> [kind |-> "task", d |-> seq[i]]]

\* priority_order.get(t.priority, 4)
PriorityOrder(p) ==
    CASE p = "urgent" -> 0
      [] p = "high" -> 1
      [] p = "medium" -> 2
      [] p = "low" -> 3
      [] OTHER -> 4

\* mutant: least urgent first
SortedByPriority_LowFirst(seq) ==
    LET K(k) == SelectSeq(seq, LAMBDA t : PriorityOrder(t.priority) = k)
    IN  K(4) \o K(3) \o K(2) \o K(1) \o K(0)

\* sorted(tasks, key=...): stable
SortedByPriority(seq) ==
    LET K(k) == SelectSeq(seq, LAMBDA t : PriorityOrder(t.priority) = k)
    IN  K(0) \o K(1) \o K(2) \o K(3) \o K(4)

\* mutant: the list keyword is tested before the add and create keywords
fallback_process_ListFirst(command, arg, now) ==
    LET cmd == Strip(LowerText(command))
        title == Strip(ReSubVerb(cmd))
        new_task == TaskInit([id |-> Len(arg) + 1, title |-> title,
                              created_at |-> now], now)
        default == [success |-> TRUE, message |-> <<"Showing all tasks">>,
                    tasks |-> arg, action |-> "LIST",
                    arg_after |-> arg, aliased |-> TRUE]
    IN  IF Contains(cmd, "list")
        THEN [success |-> TRUE, message |-> <<"Here are your tasks">>,
              tasks |-> arg, action |-> "LIST",
              arg_after |-> arg, aliased |-> TRUE]
        ELSE IF Contains(cmd, "add") \/ Contains(cmd, "create")
        THEN IF title # <<>>
             THEN [success |-> TRUE, message |-> <<"Added task: ">> \o title,
                   tasks |-> Append(arg, new_task), action |-> "ADD",
                   arg_after |-> Append(arg, new_task), aliased |-> TRUE]
             ELSE default
        ELSE IF Contains(cmd, "prioritize") \/ Contains(cmd, "sort")
        THEN [success |-> TRUE, message |-> <<"Tasks sorted by priority">>,
              tasks |-> SortedByPriority(arg), action |-> "PRIORITIZE",
              arg_after |-> arg, aliased |-> FALSE]
        ELSE default

\* fallback_process(command, tasks) at clock reading now.  arg_after is the
\* content, after the call, of the list object that was passed in; aliased
\* says whether the returned tasks is that same list object.
fallback_process(command, arg, now) ==
    LET cmd == Strip(LowerText(command))
        title == Strip(ReSubVerb(cmd))
        new_task == TaskInit([id |-> Len(arg) + 1, title |-> title,
                              created_at |-> now], now)
        default == [success |-> TRUE, message |-> <<"Showing all tasks">>,
                    tasks |-> arg, action |-> "LIST",
                    arg_after |-> arg, aliased |-> TRUE]
    IN  IF Contains(cmd, "add") \/ Contains(cmd, "create")
        THEN IF title # <<>>
             THEN [success |-> TRUE, message |-> <<"Added task: ">> \o title,
                   tasks |-> Append(arg, new_task), action |-> "ADD",
                   arg_after |-> Append(arg, new_task), aliased |-> TRUE]
             ELSE default
        ELSE IF Contains(cmd, "list")
        THEN [success |-> TRUE, message |-> <<"Here are your tasks">>,
              tasks |-> arg, action |-> "LIST",
              arg_after |-> arg, aliased |-> TRUE]
        ELSE IF Contains(cmd, "prioritize") \/ Contains(cmd, "sort")
        THEN [success |-> TRUE, message |-> <<"Tasks sorted by priority">>,
              tasks |-> SortedByPriority(arg), action |-> "PRIORITIZE",
              arg_after |-> arg, aliased |-> FALSE]
        ELSE default

----------------------------------------------------------------------------
(* TaskManager.update_tasks_from_llm *)

\* task_dict[key] = value
SetItem(d, key, value) ==
    [k \in DOMAIN d \cup {key} |-> IF k = key THEN value ELSE d[k]]

\* position of the first "," of the text, 0 if none
FirstComma(text) ==
    IF \E i \in 1..Len(text) : text[i] = ","
    THEN CHOOSE i \in 1..Len(text) :
            text[i] = "," /\ \A j \in 1..(i - 1) : text[j] # ","
    ELSE 0

\* [tag.strip() for tag in text.split(",")]
RECURSIVE SplitTags(_)
SplitTags(text) ==
    LET i == FirstComma(text)
    IN  IF i = 0
        THEN <<Strip(text)>>
        ELSE <<Strip(SubSeq(text, 1, i - 1))>>
                \o SplitTags(SubSeq(text, i + 1, Len(text)))

\* lines 264-265
NormalizeTags(d) ==
    IF "tags" \in DOMAIN d /\ d.tags.kind = "str"
    THEN SetItem(d, "tags", [kind |-> "list", v |-> SplitTags(d.tags.v)])
    ELSE d

\* priority_map.get(key, Priority.MEDIUM)
priority_map(key) ==
    CASE key = "critical" -> "urgent"
      [] key = "urgent" -> "urgent"
      [] key = "high" -> "high"
      [] key = "medium" -> "medium"
      [] key = "normal" -> "medium"
      [] key = "low" -> "low"
      [] OTHER -> "medium"

\* mutant: the priority is looked up as written
NormalizePriority_CaseSensitive(d) ==
    IF "priority" \in DOMAIN d /\ d.priority \notin Priority
    THEN SetItem(d, "priority", priority_map(d.priority))
    ELSE d

\* lines 267-281
NormalizePriority(d) ==
    IF "priority" \in DOMAIN d /\ d.priority \notin Priority
    THEN SetItem(d, "priority", priority_map(Lower(d.priority)))
    ELSE d

\* status_map.get(key, TaskStatus.TODO)
status_map(key) ==
    CASE key = "to do" -> "todo"
      [] key = "todo" -> "todo"
      [] key = "in progress" -> "in_progress"
      [] key = "in-progress" -> "in_progress"
      [] key = "done" -> "done"
      [] key = "completed" -> "done"
      [] key = "finished" -> "done"
      [] OTHER -> "todo"

\* mutant: the status is looked up as written
NormalizeStatus_CaseSensitive(d) ==
    IF "status" \in DOMAIN d /\ d.status \notin TaskStatus
    THEN SetItem(d, "status", status_map(d.status))
    ELSE d

\* lines 283-298
NormalizeStatus(d) ==
    IF "status" \in DOMAIN d /\ d.status \notin TaskStatus
    THEN SetItem(d, "status", status_map(Lower(d.status)))
    ELSE d

\* The body of the try of lines 262-305 for one element: ok is FALSE when an
\* exception was raised and the element is skipped.  Only a JSON object has
\* .get; a Task object or any other value raises AttributeError.
\* line 300: Task(**task_dict), which raises when validation fails
Construct(d, now) ==
    IF TaskValid(d)
    THEN [ok |-> TRUE, task |-> TaskInit(d, now)]
    ELSE [ok |-> FALSE, task |-> <<>>]

NormalizeElement(e, now) ==
    IF e.kind # "dict"
    THEN [ok |-> FALSE, task |-> <<>>]
    ELSE Construct(NormalizeStatus(NormalizePriority(NormalizeTags(e.d))), now)

\* lines 301-305: a converted task is appended, a failed element skipped
Converted(r) == IF r.ok THEN <<r.task>> ELSE <<>>

\* mutant: the first element that fails ends the loop
RECURSIVE ConvertAll_AbortOnBad(_, _)
ConvertAll_AbortOnBad(items, now) ==
    IF items = <<>> \/ ~NormalizeElement(Head(items), now).ok
    THEN <<>>
    ELSE <<NormalizeElement(Head(items), now).task>>
            \o ConvertAll_AbortOnBad(Tail(items), now)

\* lines 259-305: the tasks built from the elements that convert, in order
RECURSIVE ConvertAll(_, _)
ConvertAll(items, now) ==
    IF items = <<>>
    THEN <<>>
    ELSE Converted(NormalizeElement(Head(items), now))
            \o ConvertAll(Tail(items), now)

\* mutant: the id is assigned and the counter is left where it was
AssignTaskId_NoIncrement(task, nid) ==
    IF task.id = None
    THEN [task |-> [task EXCEPT !.id = nid], next_id |-> nid]
    ELSE [task |-> task, next_id |-> nid]

\* _assign_task_id on one task with the counter at nid
AssignTaskId(task, nid) ==
    IF task.id = None
    THEN [task |-> [task EXCEPT !.id = nid], next_id |-> nid + 1]
    ELSE [task |-> task, next_id |-> nid]

\* lines 307-310: ids for the tasks without one, left to right; done are
\* the tasks already visited, a the outcome of _assign_task_id on the next
RECURSIVE AssignIds(_, _, _)
AssignNext(done, a, rest) == AssignIds(Append(done, a.task), rest, a.next_id)

AssignIds(done, todo, nid) ==
    IF todo = <<>>
    THEN [tasks |-> done, next_id |-> nid]
    ELSE AssignNext(done, AssignTaskId(Head(todo), nid), Tail(todo))

\* lines 312-314: the new list replaces self.tasks
Replaced(a) == [raised |-> FALSE, tasks |-> a.tasks, next_id |-> a.next_id]

\* mutant: the new tasks are appended to the tasks of the store
update_tasks_from_llm_Merge(payload, cur, nid, now) ==
    IF payload.kind # "list"
    THEN [raised |-> TRUE, tasks |-> cur, next_id |-> nid]
    ELSE Replaced(AssignIds(cur, ConvertAll(payload.items, now), nid))

\* mutant: the store is cleared before the payload is iterated
update_tasks_from_llm_ClearFirst(payload, cur, nid, now) ==
    IF payload.kind # "list"
    THEN [raised |-> TRUE, tasks |-> <<>>, next_id |-> nid]
    ELSE Replaced(AssignIds(<<>>, ConvertAll(payload.items, now), nid))

\* update_tasks_from_llm(llm_tasks) with self.tasks holding cur and the
\* counter at nid: whether it raised, and the store's list and counter when
\* it returns or raises.  A payload is [kind, items]: kind "list" for a value
\* the for loop can iterate (items are its elements), kind "scalar" for null
\* or a number, on which the loop raises TypeError before anything is
\* assigned.
update_tasks_from_llm(payload, cur, nid, now) ==
    IF payload.kind # "list"
    THEN [raised |-> TRUE, tasks |-> cur, next_id |-> nid]
    ELSE Replaced(AssignIds(<<>>, ConvertAll(payload.items, now), nid))

----------------------------------------------------------------------------
(* LLMProcessor.process_command *)

(* The collaborator's reply is [status, error, text, obj]:                 *)
(*   error  - the HTTP call or response.json() raised (transport error,    *)
(*            timeout, body that is not JSON);                             *)
(*   status - response.status_code;                                        *)
(*   text   - result["response"], a sequence of lexemes among              *)
(*            "prose" (no brace, no backtick), " ", "<fence>json", "<fence>",      *)
(*            with <fence> standing for three backquotes,                  *)
(*            "{", "}" (a lone brace), "{J}" (the text of one complete     *)
(*            JSON object), "[J]" (the text of a JSON array of numbers);   *)
(*   obj    - the object that "{J}" spells, a record of its keys.          *)

StartsFence(s) == s = "<fence>json"

\* the closing fence matches "<fence>" and the head of "<fence>json"
HasBackticks(s) == s \in {"<fence>", "<fence>json"}

StartsBrace(s) == s \in {"{", "{J}"}

EndsBrace(s) == s \in {"}", "{J}"}

\* re.search(fence json \s*([\s\S]*?)\s* fence, text): group 1, or no match
FencedMatch(text) ==
    LET opens == {i \in 1..Len(text) :
                    /\ StartsFence(text[i])
                    /\ \E j \in (i + 1)..Len(text) : HasBackticks(text[j])}
    IN  IF opens = {}
        THEN [found |-> FALSE, span |-> <<>>]
        ELSE LET i == CHOOSE k \in opens : \A m \in opens : k <= m
                 j == CHOOSE k \in (i + 1)..Len(text) :
                        /\ HasBackticks(text[k])
                        /\ \A m \in (i + 1)..(k - 1) : ~HasBackticks(text[m])
             IN  [found |-> TRUE, span |-> Strip(SubSeq(text, i + 1, j - 1))]

\* re.search(r'(\{[\s\S]*\})', text): leftmost "{", greedy to the last "}"
BraceMatch(text) ==
    LET opens == {i \in 1..Len(text) :
                    /\ StartsBrace(text[i])
                    /\ \E j \in i..Len(text) :
                          EndsBrace(text[j]) /\ (j = i => text[i] = "{J}")}
    IN  IF opens = {}
        THEN [found |-> FALSE, span |-> <<>>]
        ELSE LET i == CHOOSE k \in opens : \A m \in opens : k <= m
                 ends == {j \in i..Len(text) :
                            EndsBrace(text[j]) /\ (j = i => text[i] = "{J}")}
                 j == CHOOSE k \in ends : \A m \in ends : m <= k
             IN  [found |-> TRUE, span |-> SubSeq(text, i, j)]

\* lines 112-125: the fenced block first, else the brace span
ExtractJson(text) ==
    IF FencedMatch(text).found THEN FencedMatch(text) ELSE BraceMatch(text)

\* json.loads(json_str): kind "object" with its value, kind "array", or
\* kind "invalid" (JSONDecodeError).  Whitespace between tokens is ignored.
JsonLoads(span, obj) ==
    LET toks == SelectSeq(span, LAMBDA s : ~IsSpace(s))
    IN  CASE toks = <<"{J}">> -> [kind |-> "object", value |-> obj]
          [] toks = <<"{", "}">> -> [kind |-> "object", value |-> <<>>]
          [] toks = <<"[J]">> -> [kind |-> "array", value |-> <<>>]
          [] OTHER -> [kind |-> "invalid", value |-> <<>>]

\* d.get(key, default)
Get(d, key, default) == IF key \in DOMAIN d THEN d[key] ELSE default

\* mutant: a span that is not valid JSON is taken for an empty object
llm_process_command_LenientJson(reply, arg) ==
    LET same == [kind |-> "list", items |-> TaskObjects(arg)]
        failure(msg) == [success |-> FALSE, message |-> <<msg>>,
                         tasks |-> same, aliased |-> TRUE]
        m == ExtractJson(reply.text)
        parsed == JsonLoads(m.span, reply.obj)
    IN  IF reply.error
        THEN failure("Error processing command: ")
        ELSE IF reply.status # 200
        THEN failure("LLM API error: ")
        ELSE IF ~m.found
        THEN failure("Failed to parse LLM response")
        ELSE IF parsed.kind = "array"
        THEN failure("Error processing command: ")
        ELSE [success |-> TRUE,
              message |-> Get(parsed.value, "message", <<"Command processed">>),
              tasks |-> Get(parsed.value, "tasks", same),
              aliased |-> "tasks" \notin DOMAIN parsed.value,
              action |-> Get(parsed.value, "action", "LIST")]

\* process_command(command, tasks) given the collaborator's reply; arg is the
\* content of the list passed as tasks.  A result whose aliased is TRUE
\* carries that very list as its tasks.
llm_process_command(reply, arg) ==
    LET same == [kind |-> "list", items |-> TaskObjects(arg)]
        failure(msg) == [success |-> FALSE, message |-> <<msg>>,
                         tasks |-> same, aliased |-> TRUE]
        m == ExtractJson(reply.text)
        parsed == JsonLoads(m.span, reply.obj)
    IN  IF reply.error
        THEN failure("Error processing command: ")
        ELSE IF reply.status # 200
        THEN failure("LLM API error: ")
        ELSE IF ~m.found
        THEN failure("Failed to parse LLM response")
        ELSE IF parsed.kind = "invalid"
        THEN failure("Failed to parse JSON from LLM response")
        ELSE IF parsed.kind # "object"
        THEN failure("Error processing command: ")
        ELSE [success |-> TRUE,
              message |-> Get(parsed.value, "message", <<"Command processed">>),
              tasks |-> Get(parsed.value, "tasks", same),
              aliased |-> "tasks" \notin DOMAIN parsed.value,
              action |-> Get(parsed.value, "action", "LIST")]

----------------------------------------------------------------------------
(* TaskManager.process_command *)

\* lines 335-340: the except clause returns self.tasks as the failed step
\* left it
except_store(upd) == upd.tasks

\* lines 330-334 and the except clause: the response, from what
\* update_tasks_from_llm did (upd)
command_response(message, upd, trace) ==
    IF upd.raised
    THEN [success |-> FALSE, message |-> <<"Error processing command: ">>,
          tasks |-> except_store(upd), store |-> except_store(upd),
          next_id |-> upd.next_id, raised |-> TRUE, trace |-> trace]
    ELSE [success |-> TRUE, message |-> message,
          tasks |-> upd.tasks, store |-> upd.tasks,
          next_id |-> upd.next_id, raised |-> FALSE, trace |-> trace]

\* lines 326-334: the commit of a result; list is the content of self.tasks
commit_result(success, message, payload, list, nid, now, trace) ==
    IF success
    THEN command_response(message,
                          update_tasks_from_llm(payload, list, nid, now), trace)
    ELSE [success |-> FALSE, message |-> message, tasks |-> list,
          store |-> list, next_id |-> nid, raised |-> FALSE, trace |-> trace]

\* lines 320-328: the LLM interpreter's result if it succeeded, else the
\* fallback interpreter's, whose call may have changed self.tasks
choose_result(llm, fb, cur, nid, now) ==
    IF llm.success
    THEN commit_result(llm.success, llm.message, llm.tasks, cur, nid, now,
                       [used_fallback |-> FALSE, llm |-> llm, fallback |-> fb])
    ELSE commit_result(fb.success, fb.message,
                       [kind |-> "list", items |-> TaskObjects(fb.tasks)],
                       fb.arg_after, nid, now,
                       [used_fallback |-> TRUE, llm |-> llm, fallback |-> fb])

\* process_command(command), from the reply of the collaborator on: arg is
\* the content of the list that was passed to the LLM interpreter, cur the
\* content of self.tasks, nid the counter.  store and next_id are the store's
\* list and counter when the call returns; raised says that the except
\* clause ran; trace records what the two interpreters returned.
process_command(command, reply, arg, cur, nid, now) ==
    choose_result(llm_process_command(reply, arg),
                  fallback_process(command, cur, now), cur, nid, now)

----------------------------------------------------------------------------
(* TaskManager: add_task, update_task, delete_task *)

\* add_task(task): the stored task and the state it leaves
Appended(a, cur) ==
    [task |-> a.task, store |-> Append(cur, a.task), next_id |-> a.next_id]

add_task(task, cur, nid) == Appended(AssignTaskId(task, nid), cur)

\* mutant: created_at of the stored task is not copied
update_task_DropCreatedAt(task_id, updated_task, cur) ==
    LET i == FirstIndex(cur, task_id)
        u == [updated_task EXCEPT !.id = task_id]
    IN  IF i = 0
        THEN [found |-> FALSE, task |-> <<>>, store |-> cur]
        ELSE [found |-> TRUE, task |-> u, store |-> [cur EXCEPT ![i] = u]]

\* update_task(task_id, updated_task): found is FALSE for the None return
update_task(task_id, updated_task, cur) ==
    LET i == FirstIndex(cur, task_id)
        u == [updated_task EXCEPT
                !.id = task_id,
                !.created_at = IF updated_task.created_at = None
                               THEN cur[i].created_at
                               ELSE updated_task.created_at]
    IN  IF i = 0
        THEN [found |-> FALSE, task |-> <<>>, store |-> cur]
        ELSE [found |-> TRUE, task |-> u, store |-> [cur EXCEPT ![i] = u]]

\* delete_task(task_id)
delete_task(task_id, cur) ==
    LET i == FirstIndex(cur, task_id)
    IN  IF i = 0
        THEN [ok |-> FALSE, store |-> cur]
        ELSE [ok |-> TRUE, store |-> RemoveAt(cur, i)]

----------------------------------------------------------------------------
(* Inputs *)

\* the Task objects a caller hands to add_task: id unset or chosen by the
\* caller, created_at stamped by Task.__init__
NewTasks(now) ==
    {TaskInit([id |-> i, title |-> <<"a">>], now) : i \in {None, 1}}

\* the Task objects a caller hands to update_task: created_at may also be
\* given as null
UpdatedTasks(now) ==
    {TaskInit([title |-> <<"c">>, created_at |-> None], now),
     TaskInit([id |-> 1, title |-> <<"c">>], now)}

Dict(d) == [kind |-> "dict", d |-> d]

\* task fragments as the LLM writes them: with an id, without id (and with
\* synonyms), without title
Fragments ==
    {Dict([id |-> 1, title |-> <<"a">>]),
     Dict([title |-> <<"b">>, priority |-> "Critical", status |-> "In-Progress",
           tags |-> [kind |-> "str", v |-> <<"work", ",", " ", "client">>]]),
     Dict([id |-> 1, priority |-> "high"])}

\* a fragment from which a task is built
Converts(e) ==
    /\ e.kind = "dict"
    /\ "title" \in DOMAIN e.d
    /\ "tags" \in DOMAIN e.d => e.d.tags.kind \in {"str", "list"}

RECURSIVE SeqsUpTo(_, _)
SeqsUpTo(S, n) ==
    IF n = 0
    THEN {<<>>}
    ELSE LET shorter == SeqsUpTo(S, n - 1)
         IN  shorter \cup {Append(q, x) : q \in {r \in shorter : Len(r) = n - 1}, x \in S}

\* tasks payloads: lists of at most n fragments
Lists(n) == {[kind |-> "list", items |-> q] : q \in SeqsUpTo(Fragments, n)}

\* a tasks value the for loop cannot iterate (null, a number)
Scalar == [kind |-> "scalar", items |-> <<>>]

\* a tasks value that iterates into elements that are not objects (a list
\* of numbers, a string)
Junk == [kind |-> "list", items |-> <<[kind |-> "other", d |-> <<>>]>>]

Payloads == Lists(MaxBatch) \cup {Scalar, Junk}

\* the payloads of the LLM replies
ReplyPayloads == Lists(1) \cup {Scalar, Junk}

Commands == {<<"add", " ", "Milk">>, <<"sort">>, <<"hello">>}

Reply(status, error, text, obj) ==
    [status |-> status, error |-> error, text |-> text, obj |-> obj]

\* replies on which the LLM interpreter fails
FailureReplies ==
    {Reply(500, FALSE, <<"{J}">>, <<>>),
     Reply(200, FALSE, <<"prose">>, <<>>)}

\* replies that carry a JSON object
ObjectReplies ==
    {Reply(200, FALSE, <<"prose", "{J}">>,
           [message |-> <<"ok">>, action |-> "UPDATE", tasks |-> p]) :
        p \in ReplyPayloads}
    \cup {Reply(200, FALSE, <<"<fence>json", "{J}", "<fence>">>,
                [message |-> <<"ok">>]),
          Reply(200, FALSE, <<"{", "}">>, <<>>)}

\* the commands offered with each reply: the command is read only by the
\* fallback interpreter
CommandCalls ==
    (Commands \X FailureReplies) \cup ({<<"hello">>} \X ObjectReplies)

----------------------------------------------------------------------------
(* The task manager as a state machine *)

Call(op, in, out) == [op |-> op, in |-> in, out |-> out]

Init ==
    /\ tasks = <<>>
    /\ next_id = 1
    /\ clock = 1
    /\ held = {}
    /\ last_added = None
    /\ last = Call("init", <<>>, <<>>)
    /\ pending = <<>>

\* time passes
Tick ==
    /\ clock < MaxClock
    /\ clock' = clock + 1
    /\ last' = Call("tick", <<>>, <<>>)
    /\ UNCHANGED <<tasks, next_id, held, last_added, pending>>

AddTask(t) ==
    \E r \in {add_task(t, tasks, next_id)} :
        /\ Len(tasks) < MaxTasks
        /\ r.next_id <= MaxNextId
        /\ tasks' = r.store
        /\ next_id' = r.next_id
        /\ held' = held \cup Ids(r.store)
        /\ last_added' = IF t.id = None THEN r.task.id ELSE last_added
        /\ last' = Call("add_task", [task |-> t], [task |-> r.task])
        /\ UNCHANGED <<clock, pending>>

UpdateTask(task_id, t) ==
    \E r \in {update_task(task_id, t, tasks)} :
        /\ tasks' = r.store
        /\ held' = held \cup Ids(r.store)
        /\ last' = Call("update_task", [id |-> task_id, task |-> t],
                        [found |-> r.found, task |-> r.task])
        /\ UNCHANGED <<next_id, clock, last_added, pending>>

DeleteTask(task_id) ==
    \E r \in {delete_task(task_id, tasks)} :
        /\ tasks' = r.store
        /\ last' = Call("delete_task", [id |-> task_id], [ok |-> r.ok])
        /\ UNCHANGED <<next_id, clock, held, last_added, pending>>

\* update_tasks_from_llm called with a payload (the store's replace_all)
ReplaceAll(payload) ==
    \E r \in {update_tasks_from_llm(payload, tasks, next_id, clock)} :
        /\ r.next_id <= MaxNextId
        /\ tasks' = r.tasks
        /\ next_id' = r.next_id
        /\ held' = held \cup Ids(r.tasks)
        /\ last' = Call("replace_all", [payload |-> payload],
                        [raised |-> r.raised, tasks |-> r.tasks])
        /\ UNCHANGED <<clock, last_added, pending>>

\* process_command, the LLM call included
ProcessCommand(command, reply) ==
    \E r \in {process_command(command, reply, tasks, tasks, next_id, clock)} :
        /\ r.next_id <= MaxNextId
        /\ tasks' = r.store
        /\ next_id' = r.next_id
        /\ held' = held \cup Ids(r.store)
        /\ last' = Call("process_command",
                        [command |-> command, reply |-> reply], r)
        /\ UNCHANGED <<clock, last_added, pending>>

Next ==
    \/ Tick
    \/ \E t \in NewTasks(clock) : AddTask(t)
    \/ \E i \in 1..MaxNextId, t \in UpdatedTasks(clock) : UpdateTask(i, t)
    \/ \E i \in 1..MaxNextId : DeleteTask(i)
    \/ \E p \in Payloads : ReplaceAll(p)
    \/ \E call \in CommandCalls : ProcessCommand(call[1], call[2])

Spec == Init /\ [][Next]_vars

\* The store under add_task on tasks without id, delete_task and replace_all
NextIds ==
    \/ Tick
    \/ \E t \in {n \in NewTasks(clock) : n.id = None} : AddTask(t)
    \/ \E i \in 1..MaxNextId : DeleteTask(i)
    \/ \E p \in Payloads : ReplaceAll(p)

SpecIds == Init /\ [][NextIds]_vars

----------------------------------------------------------------------------
(* The two interpreters on their own: one call on inputs drawn by Init *)

\* the tasks of the lists handed to the interpreters
SnapshotTasks ==
    {TaskInit([id |-> 1, title |-> <<"a">>, priority |-> "low"], 1),
     TaskInit([id |-> 2, title |-> <<"b">>, priority |-> "urgent"], 1),
     TaskInit([id |-> 3, title |-> <<"c">>, priority |-> "medium"], 1),
     TaskInit([id |-> 4, title |-> <<"d">>, priority |-> "urgent"], 1)}

Snapshots == SeqsUpTo(SnapshotTasks, MaxSnapshot)

\* the lists handed to the LLM interpreter, which reads none of the tasks
LLMSnapshots == {q \in Snapshots : \A i \in 1..Len(q) : q[i].id = i}

InitInterpreter(lists) ==
    /\ tasks \in lists
    /\ next_id = 1
    /\ clock = 1
    /\ held = {}
    /\ last_added = None
    /\ last = Call("init", <<>>, <<>>)
    /\ pending = <<>>

\* a function is applied once per behaviour: the inputs still on offer
Pending(inputs) == IF last.op = "init" THEN inputs ELSE {}

CommandLexemes ==
    {"Add", "create", "List", "sort", "prioritize", " ", "Milk", "address"}

AllCommands == SeqsUpTo(CommandLexemes, MaxCmdLen)

\* fallback_process(command, tasks) on the list held in tasks, which the call
\* may change
FallbackCall(command) ==
    /\ \E r \in {fallback_process(command, tasks, clock)} :
        /\ tasks' = r.arg_after
        /\ last' = Call("fallback_process",
                        [command |-> command, tasks |-> tasks], r)
    /\ UNCHANGED <<next_id, clock, held, last_added, pending>>

NextFallback == \E c \in Pending(AllCommands) : FallbackCall(c)

InitFallback == InitInterpreter(Snapshots)

SpecFallback == InitFallback /\ [][NextFallback]_vars

TextLexemes ==
    {"prose", " ", "<fence>json", "<fence>", "{", "}", "{J}", "[J]"}

\* the objects that "{J}" spells
ReplyObjects ==
    {[message |-> <<"ok">>, action |-> "ADD",
      tasks |-> [kind |-> "list", items |-> <<Dict([title |-> <<"a">>])>>]],
     [message |-> <<"ok">>],
     [tasks |-> Scalar]}

\* every text under each status and transport outcome
AllReplies ==
    {Reply(st, er, tx, ob) :
        st \in {200, 500}, er \in BOOLEAN,
        tx \in SeqsUpTo(TextLexemes, MaxTextLen), ob \in ReplyObjects}

\* LLMProcessor.process_command(command, tasks) on the list held in tasks
LLMCall(reply) ==
    /\ \E r \in {llm_process_command(reply, tasks)} :
        last' = Call("llm_process_command",
                     [reply |-> reply, tasks |-> tasks], r)
    /\ UNCHANGED <<tasks, next_id, clock, held, last_added, pending>>

NextLLM == \E reply \in Pending(AllReplies) : LLMCall(reply)

InitLLM == InitInterpreter(LLMSnapshots)

SpecLLM == InitLLM /\ [][NextLLM]_vars

\* The values a fragment carries as priority and status; str() of a value
\* that is not a string is written as the string ("5", "None" for null).
PriorityValues ==
    {"low", "medium", "high", "urgent", "LOW", "MEDIUM", "HIGH", "URGENT",
     "High", "critical", "Critical", "CRITICAL", "normal", "Normal",
     "asap", "ASAP", "5", "None"}

StatusValues ==
    {"todo", "in_progress", "done", "TODO", "IN_PROGRESS", "DONE", "Done",
     "to do", "To Do", "in progress", "In Progress", "in-progress",
     "In-Progress", "completed", "Completed", "finished", "Finished",
     "blocked", "5", "None"}

\* fragments with a title, with and without priority and status
WithPriority(d) == {d} \cup {SetItem(d, "priority", v) : v \in PriorityValues}

WithStatus(d) == {d} \cup {SetItem(d, "status", v) : v \in StatusValues}

ValueFragments ==
    {Dict(f) : f \in UNION {WithStatus(d) : d \in WithPriority([title |-> <<"a">>])}}

\* update_tasks_from_llm on a payload of one fragment, once per behaviour
NextNormalize ==
    \E e \in Pending(ValueFragments) :
        ReplaceAll([kind |-> "list", items |-> <<e>>])

SpecNormalize == Init /\ [][NextNormalize]_vars

----------------------------------------------------------------------------
(* process_command as the event loop runs it: the coroutine is suspended  *)
(* at the await of the LLM call (lines 98-105), where other requests run,  *)
(* and runs from the reply to its return without suspension that another   *)
(* handler could observe.                                                  *)
(*                                                                         *)
(* A call is [pc, command, given, live, old, missed]:                      *)
(*   pc     - "awaiting" while suspended, "returned" afterwards;           *)
(*   given  - the tasks written into the prompt (line 60), the content of  *)
(*            the list at the time of the call;                            *)
(*   live   - the list object passed to the LLM interpreter is still       *)
(*            self.tasks (add_task, update_task and delete_task change     *)
(*            that object in place, line 313 binds self.tasks to a new     *)
(*            one);                                                        *)
(*   old    - the content of that list object once it is no longer         *)
(*            self.tasks;                                                  *)
(*   missed - history: the tasks that commits of other calls put into the  *)
(*            store while this call was suspended.                         *)

\* the tasks of the list object that a suspended call passed to the LLM
\* interpreter, with self.tasks holding cur
Content(p, cur) == IF p.live THEN cur ELSE p.old

Range(seq) == {seq[i] : i \in 1..Len(seq)}

\* line 313 ran: self.tasks is a new list object
Rebound(r) == r.success /\ ~r.raised

\* the content of the list object that was self.tasks until line 313 ran
Unbound(r, cur) ==
    IF r.trace.used_fallback THEN r.trace.fallback.arg_after ELSE cur

\* a suspended call after another call returned r with the store holding
\* cur before
Overtaken(q, r, cur) ==
    IF Rebound(r) /\ q.pc = "awaiting"
    THEN [q EXCEPT !.live = FALSE,
                   !.old = Content(q, Unbound(r, cur)),
                   !.missed = q.missed \cup (Range(r.store) \ Range(cur))]
    ELSE q

\* a call that has returned
Returned ==
    [pc |-> "returned", command |-> <<>>, given |-> <<>>, live |-> FALSE,
     old |-> <<>>, missed |-> {}]

\* the calls after the i-th returned r
OvertakeAll(calls, i, r, cur) ==
    [k \in 1..Len(calls) |->
        IF k = i THEN Returned ELSE Overtaken(calls[k], r, cur)]

\* lines 318-320 and 56-98: process_command calls the LLM interpreter with
\* self.tasks, which builds the prompt and awaits the HTTP reply
BeginCommand(command) ==
    /\ Len(pending) < MaxPending
    /\ pending' = Append(pending, [pc |-> "awaiting", command |-> command,
                                   given |-> tasks, live |-> TRUE,
                                   old |-> <<>>, missed |-> {}])
    /\ last' = Call("begin_command", [command |-> command], <<>>)
    /\ UNCHANGED <<tasks, next_id, clock, held, last_added>>

\* lines 99-147 and 320-340: the reply arrives for the i-th suspended call,
\* which runs to its return
FinishCommand(i, reply) ==
    /\ pending[i].pc = "awaiting"
    /\ \E r \in {process_command(pending[i].command, reply,
                               Content(pending[i], tasks), tasks,
                               next_id, clock)} :
        /\ r.next_id <= MaxNextId
        /\ tasks' = r.store
        /\ next_id' = r.next_id
        /\ held' = held \cup Ids(r.store)
        /\ pending' = OvertakeAll(pending, i, r, tasks)
        /\ last' = Call("finish_command",
                        [command |-> pending[i].command, reply |-> reply,
                         given |-> pending[i].given,
                         fallback_arg |-> tasks,
                         missed |-> pending[i].missed], r)
    /\ UNCHANGED <<clock, last_added>>

\* the commands and the replies of the suspended calls: a reply without
\* JSON, and replies whose tasks are one fragment
AsyncCommands == {<<"add", " ", "Milk">>}

AsyncReplies ==
    {Reply(200, FALSE, <<"prose">>, <<>>)}
    \cup {Reply(200, FALSE, <<"{J}">>,
                [message |-> <<"ok">>, action |-> "ADD",
                 tasks |-> [kind |-> "list", items |-> <<f>>]]) :
            f \in {e \in Fragments : Converts(e)}}

NextAsync ==
    \/ \E c \in AsyncCommands : BeginCommand(c)
    \/ \E i \in 1..Len(pending), reply \in AsyncReplies :
            FinishCommand(i, reply)
    \/ \E t \in {n \in NewTasks(clock) : n.id = None} : AddTask(t)
    \/ \E i \in 1..MaxNextId : DeleteTask(i)

SpecAsync == Init /\ [][NextAsync]_vars

----------------------------------------------------------------------------
(* Properties of the task store and of process_command *)

\* C1: every task in the store has a non-null id and no two tasks of the
\* store share an id.
C1_UniqueIds ==
    \A i, j \in 1..Len(tasks) :
        /\ tasks[i].id # None
        /\ i # j => tasks[i].id # tasks[j].id

\* C2: an id that add_task assigns is larger than every id add_task assigned
\* before, and no task of the store holds it or has held it before.
C2_AssignedIdsFresh ==
    [][(last'.op = "add_task" /\ last'.in.task.id = None)
         => /\ last'.out.task.id > last_added
            /\ last'.out.task.id \notin held]_vars

\* the number of incoming tasks of the payload that lack an id
Lacking(payload) ==
    Cardinality({i \in 1..Len(payload.items) :
                    /\ Converts(payload.items[i])
                    /\ "id" \in DOMAIN payload.items[i].d
                          => payload.items[i].d.id = None})

\* C3: next_id never decreases; a replacement adds one to it for each
\* incoming task that lacks an id, so an empty replacement leaves no task
\* and the counter where it was.
C3_CounterMonotone ==
    [][/\ next_id' >= next_id
       /\ (last'.op = "replace_all" /\ ~last'.out.raised)
            => /\ next_id' = next_id + Lacking(last'.in.payload)
               /\ last'.in.payload.items = <<>>
                    => tasks' = <<>> /\ next_id' = next_id
       /\ (last'.op = "process_command" /\ last'.out.trace.llm.success
                /\ ~last'.out.raised)
            => next_id' = next_id + Lacking(last'.out.trace.llm.tasks)]_vars

C3_Witness ==
    /\ last.op = "replace_all"
    /\ last.in.payload.items = <<>>
    /\ tasks = <<>>
    /\ next_id > 1
    /\ held # {}

\* C4: update_task on an id of the store returns a task with that id and,
\* when the given created_at is unset, the stored created_at; it overwrites
\* one position and nothing else; on an unknown id it finds nothing and
\* changes nothing.
C4_UpdateInPlace ==
    [][last'.op = "update_task"
         => LET tid == last'.in.id
                t == last'.in.task
                r == last'.out
            IN  /\ next_id' = next_id
                /\ Len(tasks') = Len(tasks)
                /\ IF tid \in Ids(tasks)
                   THEN /\ r.found
                        /\ r.task.id = tid
                        /\ \E i \in 1..Len(tasks) :
                              /\ tasks[i].id = tid
                              /\ tasks'[i] = r.task
                              /\ t.created_at = None
                                    => r.task.created_at = tasks[i].created_at
                              /\ \A j \in 1..Len(tasks) :
                                    j # i => tasks'[j] = tasks[j]
                   ELSE ~r.found /\ tasks' = tasks]_vars

C4_Witness ==
    /\ last.op = "update_task"
    /\ last.out.found
    /\ last.in.task.created_at = None
    /\ last.in.task.id # last.in.id
    /\ last.out.task.created_at # None
    /\ Len(tasks) = 2

\* C5: a task that process_command installs under the id of a task that was
\* in the store before has that task's created_at.
C5_CreatedAtPreserved ==
    [][last'.op = "process_command"
         => \A i \in 1..Len(tasks'), j \in 1..Len(tasks) :
                tasks'[i].id = tasks[j].id
                    => tasks'[i].created_at = tasks[j].created_at]_vars

\* C6: when the LLM interpreter fails, process_command returns the message
\* and the tasks that fallback_process returns for the command on the
\* prior store.
C6_FallbackOutput ==
    (last.op = "process_command" /\ ~last.out.trace.llm.success)
        => /\ last.out.message = last.out.trace.fallback.message
           /\ last.out.tasks = last.out.trace.fallback.tasks

\* C7: when a step of process_command raises, the call returns
\* success=false with the store's tasks, and the store's list and counter
\* are what they were before the call.
C7_ExceptionLeavesStore ==
    [][(last'.op = "process_command" /\ last'.out.raised)
         => /\ ~last'.out.success
            /\ last'.out.message # <<>>
            /\ last'.out.tasks = tasks
            /\ tasks' = tasks
            /\ next_id' = next_id]_vars

C7_Witness ==
    /\ last.op = "process_command"
    /\ last.out.raised
    /\ last.in.reply.obj.tasks.kind = "scalar"
    /\ ~last.out.success
    /\ Len(tasks) = 2

----------------------------------------------------------------------------
(* Properties of the interpreters *)

\* the text has neither a fenced JSON block nor a brace span
NoSpan(text) ==
    /\ ~\E i, j \in 1..Len(text) :
            i < j /\ text[i] = "<fence>json" /\ text[j] \in {"<fence>", "<fence>json"}
    /\ ~\E i \in 1..Len(text) : text[i] = "{J}"
    /\ ~\E i, j \in 1..Len(text) :
            i < j /\ text[i] \in {"{", "{J}"} /\ text[j] \in {"}", "{J}"}

\* C8: the LLM interpreter returns a failure with the input tasks on a
\* non-success status, a transport error, a text without span and a span
\* that is not JSON; a success comes from a success status, an extracted
\* span and parsed JSON, with tasks defaulting to the input list and action
\* to LIST.
C8_LLMResult ==
    last.op = "llm_process_command"
        => LET reply == last.in.reply
               r == last.out
               same == [kind |-> "list", items |-> TaskObjects(last.in.tasks)]
               span == ExtractJson(reply.text).span
               value == JsonLoads(span, reply.obj)
           IN  /\ (\/ reply.error
                   \/ reply.status # 200
                   \/ NoSpan(reply.text)
                   \/ value.kind = "invalid")
                    => ~r.success /\ r.tasks = same /\ r.aliased
               /\ r.success
                    => /\ ~reply.error
                       /\ reply.status = 200
                       /\ ~NoSpan(reply.text)
                       /\ value.kind = "object"
                       /\ r.tasks = IF "tasks" \in DOMAIN value.value
                                    THEN value.value.tasks ELSE same
                       /\ r.action = IF "action" \in DOMAIN value.value
                                     THEN value.value.action ELSE "LIST"
               /\ ~r.success => r.tasks = same

C8_Witness ==
    /\ last.op = "llm_process_command"
    /\ ~last.out.success
    /\ ~last.in.reply.error
    /\ last.in.reply.status = 200
    /\ ~NoSpan(last.in.reply.text)
    /\ Len(last.in.tasks) = 2
    /\ last.out.tasks.items = TaskObjects(last.in.tasks)

\* some lexeme of the command has the keyword in it, whatever the case
Mentions(command, word) ==
    \E i \in 1..Len(command) : Occurs(word, Lower(command[i]))

\* C9: fallback_process returns success=true with the action tag of the
\* first branch that applies: ADD for add or create, LIST for list,
\* PRIORITIZE for prioritize or sort, LIST otherwise.
C9_FallbackBranch ==
    last.op = "fallback_process"
        => LET c == last.in.command
           IN  /\ last.out.success
               /\ last.out.action =
                    IF Mentions(c, "add") \/ Mentions(c, "create") THEN "ADD"
                    ELSE IF Mentions(c, "list") THEN "LIST"
                    ELSE IF Mentions(c, "prioritize") \/ Mentions(c, "sort")
                         THEN "PRIORITIZE"
                    ELSE "LIST"

C9_Witness ==
    /\ last.op = "fallback_process"
    /\ Mentions(last.in.command, "add")
    /\ Mentions(last.in.command, "list")
    /\ Mentions(last.in.command, "sort")
    /\ last.out.action = "ADD"
    /\ last.out.success

\* C10: on a command made of the verb add or create, whitespace and a text
\* T, fallback_process returns the input list followed by one new task
\* titled T with priority MEDIUM and status TODO, action ADD and the message
\* "Added task: T".
C10_AddTitle ==
    (/\ last.op = "fallback_process"
     /\ Len(last.in.command) >= 3
     /\ Lower(last.in.command[1]) \in {"add", "create"}
     /\ IsSpace(last.in.command[2])
     /\ ~IsSpace(last.in.command[3])
     /\ ~IsSpace(last.in.command[Len(last.in.command)]))
        => LET T == SubSeq(last.in.command, 3, Len(last.in.command))
               n == Len(last.in.tasks)
           IN  /\ last.out.action = "ADD"
               /\ last.out.message = <<"Added task: ">> \o T
               /\ Len(last.out.tasks) = n + 1
               /\ SubSeq(last.out.tasks, 1, n) = last.in.tasks
               /\ last.out.tasks[n + 1].title = T
               /\ last.out.tasks[n + 1].priority = "medium"
               /\ last.out.tasks[n + 1].status = "todo"

\* rank of a priority in the order URGENT < HIGH < MEDIUM < LOW
Rank(p) ==
    CHOOSE k \in 1..4 : <<"urgent", "high", "medium", "low">>[k] = p

\* the ways to place the n input positions at the n output positions
Placements(n) ==
    {f \in [1..n -> 1..n] : \A i, j \in 1..n : i # j => f[i] # f[j]}

\* C11: on a command that mentions prioritize or sort and none of add,
\* create and list, fallback_process returns the input tasks rearranged so
\* that ranks never decrease and tasks of equal priority keep their input
\* order, with action PRIORITIZE.
C11_SortedStable ==
    (/\ last.op = "fallback_process"
     /\ Mentions(last.in.command, "prioritize")
            \/ Mentions(last.in.command, "sort")
     /\ ~Mentions(last.in.command, "add")
     /\ ~Mentions(last.in.command, "create")
     /\ ~Mentions(last.in.command, "list"))
        => LET in == last.in.tasks
               out == last.out.tasks
               n == Len(in)
           IN  /\ last.out.action = "PRIORITIZE"
               /\ Len(out) = n
               /\ \E f \in Placements(n) :
                    /\ \A i \in 1..n : out[i] = in[f[i]]
                    /\ \A i, j \in 1..n :
                          i < j =>
                            /\ Rank(out[i].priority) <= Rank(out[j].priority)
                            /\ out[i].priority = out[j].priority
                                  => f[i] < f[j]

C11_Witness ==
    /\ last.op = "fallback_process"
    /\ last.out.action = "PRIORITIZE"
    /\ Len(last.in.tasks) = 2
    /\ last.in.tasks[1].priority = "low"
    /\ last.in.tasks[2].priority = "urgent"
    /\ last.out.tasks = <<last.in.tasks[2], last.in.tasks[1]>>

\* C12: on a command that is only the verb add or create, with or without
\* whitespace around it, fallback_process adds no task: the returned list is
\* the input list.
C12_VerbOnlyInert ==
    (/\ last.op = "fallback_process"
     /\ Len(Strip(last.in.command)) = 1
     /\ Lower(Strip(last.in.command)[1]) \in {"add", "create"})
        => last.out.tasks = last.in.tasks

\* the positions of the payload whose fragment is valid, and the position
\* of the k-th of them
ValidAt(items) == {i \in 1..Len(items) : Converts(items[i])}

KthValid(items, k) ==
    CHOOSE i \in ValidAt(items) :
        Cardinality({j \in ValidAt(items) : j <= i}) = k

\* C13: update_tasks_from_llm on a sequence of fragments does not raise; the
\* store then holds one task for each valid fragment and none for the
\* others, in the order of the fragments.
C13_BadFragmentsDropped ==
    [][(last'.op = "replace_all" /\ last'.in.payload.kind = "list")
         => LET items == last'.in.payload.items
            IN  /\ ~last'.out.raised
                /\ Len(tasks') = Cardinality(ValidAt(items))
                /\ \A k \in 1..Len(tasks') :
                      tasks'[k].title = items[KthValid(items, k)].d.title]_vars

C13_Witness ==
    /\ last.op = "replace_all"
    /\ Len(last.in.payload.items) = 2
    /\ ~Converts(last.in.payload.items[1])
    /\ Converts(last.in.payload.items[2])
    /\ Len(tasks) = 1
    /\ tasks[1].title = last.in.payload.items[2].d.title

----------------------------------------------------------------------------
(* Properties of the field normalizer *)

\* the one fragment of the payload of the last replacement
Fragment == last.in.payload.items[1].d

\* C14: the task built from a fragment has the fragment's priority when it
\* is a canonical value; otherwise, comparing without regard to case,
\* URGENT for critical and urgent, HIGH for high, MEDIUM for medium and
\* normal, LOW for low, and MEDIUM for every other value; MEDIUM when the
\* fragment has no priority.
C14_PriorityTotal ==
    (last.op = "replace_all" /\ Len(last.in.payload.items) = 1)
        => /\ Len(tasks) = 1
           /\ tasks[1].priority =
                IF "priority" \notin DOMAIN Fragment THEN "medium"
                ELSE IF Fragment.priority \in {"low", "medium", "high", "urgent"}
                     THEN Fragment.priority
                ELSE IF Lower(Fragment.priority) \in {"critical", "urgent"}
                     THEN "urgent"
                ELSE IF Lower(Fragment.priority) = "high" THEN "high"
                ELSE IF Lower(Fragment.priority) = "low" THEN "low"
                ELSE "medium"

C14_Witness ==
    /\ last.op = "replace_all"
    /\ Len(last.in.payload.items) = 1
    /\ "priority" \in DOMAIN Fragment
    /\ Fragment.priority = "CRITICAL"
    /\ Len(tasks) = 1
    /\ tasks[1].priority = "urgent"

\* C15: the task built from a fragment has the fragment's status when it is
\* a canonical value; otherwise, comparing without regard to case, TODO for
\* "to do" and "todo", IN_PROGRESS for "in progress" and "in-progress", DONE
\* for "done", "completed" and "finished", and TODO for every other value;
\* TODO when the fragment has no status.
C15_StatusTotal ==
    (last.op = "replace_all" /\ Len(last.in.payload.items) = 1)
        => /\ Len(tasks) = 1
           /\ tasks[1].status =
                IF "status" \notin DOMAIN Fragment THEN "todo"
                ELSE IF Fragment.status \in {"todo", "in_progress", "done"}
                     THEN Fragment.status
                ELSE IF Lower(Fragment.status) \in {"in progress", "in-progress"}
                     THEN "in_progress"
                ELSE IF Lower(Fragment.status)
                            \in {"done", "completed", "finished"}
                     THEN "done"
                ELSE "todo"

C15_Witness ==
    /\ last.op = "replace_all"
    /\ Len(last.in.payload.items) = 1
    /\ "status" \in DOMAIN Fragment
    /\ Fragment.status = "In-Progress"
    /\ Len(tasks) = 1
    /\ tasks[1].status = "in_progress"

\* the canonical values written in lower case and in upper case, each with
\* the canonical value it spells
CanonicalPriority ==
    [v \in {"low", "medium", "high", "urgent"} |-> v]
        @@ ("LOW" :> "low") @@ ("MEDIUM" :> "medium")
        @@ ("HIGH" :> "high") @@ ("URGENT" :> "urgent")

CanonicalStatus ==
    [v \in {"todo", "in_progress", "done"} |-> v]
        @@ ("TODO" :> "todo") @@ ("IN_PROGRESS" :> "in_progress")
        @@ ("DONE" :> "done")

\* C20: a fragment that carries a canonical priority or status, in lower
\* case or in upper case, yields a task with that priority or status.
C20_CaseRoundTrip ==
    (last.op = "replace_all" /\ Len(last.in.payload.items) = 1)
        => /\ Len(tasks) = 1
           /\ ("priority" \in DOMAIN Fragment
                    /\ Fragment.priority \in DOMAIN CanonicalPriority)
                => tasks[1].priority = CanonicalPriority[Fragment.priority]
           /\ ("status" \in DOMAIN Fragment
                    /\ Fragment.status \in DOMAIN CanonicalStatus)
                => tasks[1].status = CanonicalStatus[Fragment.status]

----------------------------------------------------------------------------
(* Properties of the commit of process_command *)

\* the interpreter whose result process_command commits returned, as its
\* tasks, the list it was given
ReturnedCurrentList(out) ==
    IF out.trace.used_fallback
    THEN out.trace.fallback.action = "LIST" /\ out.trace.fallback.aliased
    ELSE out.trace.llm.aliased

\* C16: when the interpreter whose result is committed returned the current
\* list as its tasks (the list and default branches of the fallback, an LLM
\* success without tasks field), process_command leaves the store as it
\* was.
C16_CurrentListSurvives ==
    [][(last'.op = "process_command" /\ ReturnedCurrentList(last'.out))
         => tasks' = tasks]_vars

\* C19: the list passed to fallback_process holds the same tasks after the
\* call as before it, whichever branch is taken.
C19_SnapshotUntouched ==
    last.op = "fallback_process" => tasks = last.in.tasks

----------------------------------------------------------------------------
(* Properties of overlapping process_command calls *)

\* the tasks payload that the returning call committed
Committed(out) ==
    IF out.trace.used_fallback
    THEN [kind |-> "list", items |-> TaskObjects(out.trace.fallback.tasks)]
    ELSE out.trace.llm.tasks

\* the payload has a fragment for a task of that title
Carries(payload, t) ==
    \E i \in 1..Len(payload.items) :
        /\ Converts(payload.items[i])
        /\ payload.items[i].d.title = t.title

\* C17: the commit of a call replaces the store by the tasks of its own
\* payload, so a task that another call committed while this call was
\* suspended is in the store afterwards only if this call's payload carries
\* it: calls that overlap at the LLM call lose the earlier commit.
C17_LaterCommitOverwrites ==
    (last.op = "finish_command" /\ Rebound(last.out))
        => \A t \in last.in.missed :
                t \in Range(tasks) => Carries(Committed(last.out), t)

\* both calls committed, and the task the first one added, which the second
\* never saw, is gone
C17_Witness ==
    /\ last.op = "finish_command"
    /\ Rebound(last.out)
    /\ ~last.out.trace.used_fallback
    /\ tasks # <<>>
    /\ \E t \in last.in.missed :
            /\ t \notin Range(last.in.given)
            /\ t \notin Range(tasks)

\* C18: when the LLM interpreter fails, fallback_process is called with the
\* tasks that were given to the LLM interpreter when the call began.
C18_FallbackSameSnapshot ==
    (last.op = "finish_command" /\ last.out.trace.used_fallback)
        => last.in.fallback_arg = last.in.given

====
